---------------------------- MODULE Spec2Model ----------------------------
(***************************************************************************)
(* Fixture generators and input validator of the BGVR chapter 8/9          *)
(* experiments, as state machines.                                         *)
(*                                                                         *)
(*   SpecValidate  chapter_09/experiment_9_6/scripts/validate_input.py     *)
(*   SpecKmer      chapter_09/experiment_9_2/generate_data.py,              *)
(*                 generate_kmer_index                                     *)
(*   SpecReads     the same file, generate_weighted_reads                  *)
(*   SpecErrors    the same file, introduce_errors and the reads            *)
(*   SpecMain      the same file, main, run twice with one seed            *)
(*   SpecCounts    chapter_09/experiment_9_3/generate_sample_data.py and   *)
(*                 chapter_09/experiment_9_4/generate_the_data.py          *)
(*   SpecDatasets  main of the two: one dataset, or the presets of          *)
(*                 --create-test-sets                                       *)
(*   SpecPipeline  main of chapter_09/experiment_9_6/scripts/                *)
(*                 generate_sample_data.py, then validate_input.py on the   *)
(*                 file it wrote                                            *)
(*   SpecTables    the two, and generate_simple_synthetic_data of          *)
(*                 chapter_09/experiment_9_6/scripts/generate_sample_data.py *)
(*                                                                         *)
(* Text is a TLA+ string, a nucleotide sequence a tuple of one-letter      *)
(* strings, a table a sequence of row records, a dict a sequence of        *)
(* key/value records in insertion order.                                   *)
(***************************************************************************)
EXTENDS Integers, Sequences, FiniteSets, TLC

VARIABLES
    \* ---- validate_input.py: one process run
    vpc,          \* position in main()
    argc,         \* len(sys.argv)
    input,        \* the file sys.argv[1] names
    fs,           \* the output directory sys.argv[2] names and the two files in it
    fs0,          \* fs when the process started
    df,           \* the parsed table
    df_filtered,  \* df[df['count'] > 0]
    err,          \* str(e) of the exception caught at line 50
    exitCode,     \* process exit status; Running until the process ends
    log,          \* file-system operations of this run, in order
    stdout,       \* lines printed by this run
    \* ---- generate_data.py
    spc,                  \* position in main(), or the function being called
    num_transcripts,      \* --num-transcripts
    kmer_length,          \* --kmer-length, the k of generate_kmer_index
    total_reads,          \* --num-reads
    read_length,          \* --read-length
    error_rate,           \* --error-rate, in percent
    transcripts,          \* dict transcript_id -> sequence
    expression_profile,   \* dict transcript_id -> expression
    kmers_by_transcript,  \* what generate_kmers_from_sequence returned, per transcript
    kmer_to_transcripts,  \* dict kmer -> list of transcript ids (lines 26-33)
    kmer_index,           \* list of k-mer records
    transcript_reads,     \* dict transcript_id -> allotted number of reads
    reads_per_transcript, \* how many reads each pass of the loop of line 92 appended
    reads,                \* list of reads
    run,                  \* 1 or 2: which of the two runs with the same seed
    tape,                 \* what the generator seeded with --seed yields, call by call
    files,                \* the files under data/
    files1,               \* the files under data/ as the first run left them
    in_sequence,          \* introduce_errors: the argument sequence
    error_positions,      \* the positions where random.random() < error_rate held
    seq_list,             \* the sequence introduce_errors returns
    \* ---- generate_sample_data.py (9.3), generate_the_data.py (9.4)
    cpc,          \* position in the generator
    generator,    \* "bulk" (9.3) or "de" (9.4)
    n_genes,
    n_samples,    \* n_samples (9.3) or n_samples_per_group (9.4)
    samples,      \* sample identifiers in generation order
    count_data,   \* rows appended so far
    effects,      \* batch_effect and treatment_effect of each row (9.3), in tenths
    rng_stream,   \* one period of what np.random yields after seed(42), draw by
                  \* draw; <<>> where the model leaves the stream open
    rng_pos,      \* draws taken since the generator was last seeded
    mode,         \* "standalone", or "batch" under --create-test-sets
    preset,       \* index into datasets of the preset being created
    metadata,     \* rows of the metadata table
    dirs,         \* what each finished preset left in its directory
    \* ---- generate_sample_data.py (9.6): generate_simple_synthetic_data
    n_cells,
    entries,      \* the drawn entries (lines 38-51)
    df_grouped,   \* df after groupby(...).max().reset_index() (line 55)
    df_final      \* the returned table

errVars == <<in_sequence, error_positions, seq_list>>
valVars == <<vpc, argc, input, fs, fs0, df, df_filtered, err, exitCode, log, stdout>>
seqVars == <<spc, num_transcripts, kmer_length, total_reads, read_length, error_rate,
             transcripts, expression_profile, kmers_by_transcript, kmer_to_transcripts,
             kmer_index, transcript_reads, reads_per_transcript, reads, run, tape, files, files1,
             errVars>>
scVars  == <<n_cells, entries, df_grouped, df_final>>
rngVars == <<rng_stream, rng_pos>>
runVars == <<mode, preset, metadata, dirs>>
cntVars == <<cpc, generator, n_genes, n_samples, samples, count_data, effects,
             rngVars, runVars, scVars>>

vars == <<valVars, seqVars, cntVars>>

-----------------------------------------------------------------------------
(* Bounds of the model *)

MaxRows == 2      \* rows of an input table
MaxIdx  == 1      \* gene_idx and cell_idx range over 0..MaxIdx
MaxTranscripts == 2   \* transcripts in a dict
MaxBases == 3         \* bases of all transcripts of a dict together
MaxK == 3             \* k-mer length
MaxExpr == 2          \* expression of a transcript, 1..MaxExpr
MaxReadBases == 3     \* total_reads, read_length and their product
MaxLength == 2        \* length of a transcript generated in main, 1..MaxLength
MaxGenes == 2         \* n_genes
MaxSamples == 7       \* n_samples, n_samples_per_group
MaxCountRows == 8     \* rows of a generated count table
MaxDraw == 1          \* largest value of one random draw
MaxPeriod == 3        \* draws after which a seeded stream repeats
MaxGeneNumber == 10   \* n_genes of a run of main
MaxMainSamples == 2   \* n_samples, n_samples_per_group of a run of main
MaxMatrix == 15       \* n_cells * n_genes of the single-cell generator

-----------------------------------------------------------------------------
(* Generic helpers *)

Running == -1
NoError == ""

Range(s) == {s[i] : i \in DOMAIN s}

\* the orders in which the elements of S can be listed
RECURSIVE Perms(_)
Perms(S) ==
    IF S = {} THEN {<<>>}
    ELSE UNION {{<<x>> \o p : p \in Perms(S \ {x})} : x \in S}

RECURSIVE SumSeq(_)
SumSeq(s) == IF s = <<>> THEN 0 ELSE Head(s) + SumSeq(Tail(s))

RECURSIVE SeqsUpTo(_, _)
\* all sequences over S of length 0..n
SeqsUpTo(S, n) ==
    IF n = 0 THEN {<<>>}
    ELSE LET shorter == SeqsUpTo(S, n - 1)
         IN  shorter \cup {Append(s, x) : s \in {t \in shorter : Len(t) = n - 1}, x \in S}

\* Python's "{n:0Wd}" for n >= 0
RECURSIVE ZeroPad(_, _)
ZeroPad(n, width) ==
    IF Len(ToString(n)) >= width THEN ToString(n)
    ELSE "0" \o ZeroPad(n, width - 1)

\* Python's "{n:,}" for n >= 0
RECURSIVE FormatThousands(_)
FormatThousands(n) ==
    IF n < 1000 THEN ToString(n)
    ELSE FormatThousands(n \div 1000) \o "," \o ZeroPad(n % 1000, 3)

-----------------------------------------------------------------------------
(* validate_input.py                                                        *)

required_cols == <<"gene_idx", "cell_idx", "count">>
Cols == {"gene_idx", "cell_idx", "count"}

\* counts of the three sign classes the filter tells apart
CountValues == {-1, 0, 2}

Row(g, c, n) == [gene_idx |-> g, cell_idx |-> c, count |-> n]
Rows   == {Row(g, c, n) : g \in 0..MaxIdx, c \in 0..MaxIdx, n \in CountValues}
Tables == SeqsUpTo(Rows, MaxRows)

\* what sys.argv[1] can name.  kind: "missing" no such file, "empty" a file
\* with no header line, "table" a tab-separated table; numeric: the count
\* column parsed as numbers (FALSE: it holds text).  The rows of a table that
\* lacks a required column are never read, so one table stands for them.
InputFiles ==
    {[kind |-> k, header |-> {}, rows |-> <<>>, numeric |-> TRUE] : k \in {"missing", "empty"}}
    \cup {[kind |-> "table", header |-> Cols, rows |-> r, numeric |-> TRUE] : r \in Tables}
    \cup {[kind |-> "table", header |-> h, rows |-> <<>>, numeric |-> TRUE] : h \in (SUBSET Cols) \ {Cols}}
    \cup {[kind |-> "table", header |-> Cols, rows |-> <<>>, numeric |-> FALSE]}

SampleInput == [kind |-> "table", header |-> Cols, rows |-> <<Row(0, 0, 2)>>, numeric |-> TRUE]
NoTable     == [kind |-> "none", header |-> {}, rows |-> <<>>, numeric |-> TRUE]

ArgCounts == {1, 2, 3, 4}

NoMatrix == [exists |-> FALSE, header |-> <<>>, rows |-> <<>>]
NoReport == [exists |-> FALSE, lines |-> <<>>]
MatrixFile(rows) == [exists |-> TRUE, header |-> required_cols, rows |-> rows]
ReportFile(lines) == [exists |-> TRUE, lines |-> lines]

\* line 22: [col for col in required_cols if col not in df.columns]
MissingCols(header) == SelectSeq(required_cols, LAMBDA c : c \notin header)

\* str() of a Python list of strings
RECURSIVE JoinQuoted(_)
JoinQuoted(s) ==
    IF s = <<>> THEN ""
    ELSE "'" \o Head(s) \o "'" \o (IF Tail(s) = <<>> THEN "" ELSE ", " \o JoinQuoted(Tail(s)))
PyListRepr(s) == "[" \o JoinQuoted(s) \o "]"

\* line 25
MissingColsMessage(missing) == "Missing required columns: " \o PyListRepr(missing)

\* line 28: df[df['count'] > 0]
PositiveRowsNonNegative(rows) == SelectSeq(rows, LAMBDA r : r.count >= 0)
PositiveRows(rows) == SelectSeq(rows, LAMBDA r : r.count > 0)

NUnique(rows, col) == Cardinality({rows[i][col] : i \in DOMAIN rows})

\* lines 35-41: the summary report
SummaryReport(all, kept) ==
    << "Input Validation Report",
       "======================",
       "Original entries: " \o FormatThousands(Len(all)),
       "Non-zero entries: " \o FormatThousands(Len(kept)),
       "Unique genes: " \o FormatThousands(NUnique(kept, "gene_idx")),
       "Unique cells: " \o FormatThousands(NUnique(kept, "cell_idx")),
       "Total counts: " \o FormatThousands(SumSeq([i \in DOMAIN kept |-> kept[i].count])) >>

\* line 56: f"ERROR: {e}"
ErrorReportNoPrefix(e) == <<e>>
ErrorReport(e) == <<"ERROR: " \o e>>

\* the output directory before the run: not there, there and empty, left by
\* an earlier successful run, left by an earlier failed run
StaleRows == <<Row(1, 1, 2)>>
OutputDirStates ==
    { [dir |-> FALSE, matrix |-> NoMatrix, report |-> NoReport],
      [dir |-> TRUE,  matrix |-> NoMatrix, report |-> NoReport],
      [dir |-> TRUE,  matrix |-> MatrixFile(StaleRows),
                      report |-> ReportFile(SummaryReport(StaleRows, StaleRows))],
      [dir |-> TRUE,  matrix |-> NoMatrix,
                      report |-> ReportFile(ErrorReport("No columns to parse from file"))] }

\* the components a specification does not run
ValIdle ==
    /\ vpc = "idle" /\ argc = 0 /\ input = NoTable
    /\ fs = [dir |-> FALSE, matrix |-> NoMatrix, report |-> NoReport] /\ fs0 = fs
    /\ df = NoTable /\ df_filtered = NoTable /\ err = NoError
    /\ exitCode = Running /\ log = <<>> /\ stdout = <<>>

NoFiles == [kmer_index |-> <<>>, reads |-> <<>>, transcripts |-> <<>>, true_expression |-> <<>>]
NoTape  == [transcripts |-> <<>>, expression_profile |-> <<>>, reads |-> <<>>]

ErrIdle == in_sequence = <<>> /\ error_positions = {} /\ seq_list = <<>>

SeqIdle ==
    /\ spc = "idle" /\ num_transcripts = 0 /\ kmer_length = 0 /\ total_reads = 0
    /\ read_length = 0 /\ error_rate = 0 /\ transcripts = <<>> /\ expression_profile = <<>>
    /\ kmers_by_transcript = <<>> /\ kmer_to_transcripts = <<>> /\ kmer_index = <<>>
    /\ transcript_reads = <<>> /\ reads_per_transcript = <<>> /\ reads = <<>> /\ run = 1 /\ tape = NoTape
    /\ files = NoFiles /\ files1 = NoFiles
    /\ ErrIdle

RngOpen == rng_stream = <<>> /\ rng_pos = 0
RunIdle == mode = "standalone" /\ preset = 0 /\ metadata = <<>> /\ dirs = <<>>
ScIdle == n_cells = 0 /\ entries = <<>> /\ df_grouped = <<>> /\ df_final = <<>>

CntIdle ==
    /\ cpc = "idle" /\ generator = "none" /\ n_genes = 0 /\ n_samples = 0
    /\ samples = <<>> /\ count_data = <<>> /\ effects = <<>>
    /\ RngOpen
    /\ RunIdle
    /\ ScIdle

ValInit ==
    /\ SeqIdle
    /\ CntIdle
    /\ vpc = "args"
    /\ argc \in ArgCounts
    /\ input \in (IF argc = 3 THEN InputFiles ELSE {SampleInput})
    /\ fs \in OutputDirStates
    /\ fs0 = fs
    /\ df = NoTable
    /\ df_filtered = NoTable
    /\ err = NoError
    /\ exitCode = Running
    /\ log = <<>>
    /\ stdout = <<>>

\* raise inside the try block: control goes to the except clause of line 50
Raise(msg) ==
    /\ err' = msg
    /\ vpc' = "except"

\* lines 8-13
CheckArgsAtLeast ==
    /\ vpc = "args"
    /\ IF argc < 3
       THEN /\ stdout' = Append(stdout, "Usage: python validate_input.py <input_file> <output_dir>")
            /\ exitCode' = 1
            /\ vpc' = "exited"
       ELSE /\ vpc' = "read"
            /\ UNCHANGED <<stdout, exitCode>>
    /\ UNCHANGED <<seqVars, cntVars>>
    /\ UNCHANGED <<argc, input, fs, fs0, df, df_filtered, err, log>>
CheckArgs ==
    /\ vpc = "args"
    /\ IF argc # 3
       THEN /\ stdout' = Append(stdout, "Usage: python validate_input.py <input_file> <output_dir>")
            /\ exitCode' = 1
            /\ vpc' = "exited"
       ELSE /\ vpc' = "read"
            /\ UNCHANGED <<stdout, exitCode>>
    /\ UNCHANGED <<seqVars, cntVars>>
    /\ UNCHANGED <<argc, input, fs, fs0, df, df_filtered, err, log>>

\* lines 16-18: pd.read_csv raises on a missing file and on a file without
\* a header line
ReadCsv ==
    /\ vpc = "read"
    /\ log' = Append(log, "read input")
    /\ CASE input.kind = "missing" ->
              /\ Raise("[Errno 2] No such file or directory: 'input.tsv'")
              /\ stdout' = Append(stdout, "Validating input matrix")
              /\ UNCHANGED df
         [] input.kind = "empty" ->
              /\ Raise("No columns to parse from file")
              /\ stdout' = Append(stdout, "Validating input matrix")
              /\ UNCHANGED df
         [] OTHER ->
              /\ df' = input
              /\ stdout' = stdout \o <<"Validating input matrix", "Input shape">>
              /\ vpc' = "check"
              /\ UNCHANGED err
    /\ UNCHANGED <<seqVars, cntVars>>
    /\ UNCHANGED <<argc, input, fs, fs0, df_filtered, exitCode>>

\* lines 21-25
CheckColumns ==
    /\ vpc = "check"
    /\ LET missing_cols == MissingCols(df.header)
       IN  IF missing_cols # <<>>
           THEN Raise(MissingColsMessage(missing_cols))
           ELSE vpc' = "filter" /\ UNCHANGED err
    /\ UNCHANGED <<seqVars, cntVars>>
    /\ UNCHANGED <<argc, input, fs, fs0, df, df_filtered, exitCode, log, stdout>>

\* line 28: df['count'] raises KeyError without the column; comparing a text
\* column with 0 raises TypeError
FilterCounts ==
    /\ vpc = "filter"
    /\ IF "count" \notin df.header
       THEN Raise("'count'") /\ UNCHANGED df_filtered
       ELSE IF ~df.numeric
       THEN Raise("'>' not supported between instances of 'str' and 'int'")
            /\ UNCHANGED df_filtered
       ELSE /\ df_filtered' = [df EXCEPT !.rows = PositiveRows(df.rows)]
            /\ vpc' = "save"
            /\ UNCHANGED err
    /\ UNCHANGED <<seqVars, cntVars>>
    /\ UNCHANGED <<argc, input, fs, fs0, df, exitCode, log, stdout>>

\* lines 31-32: to_csv raises OSError when the directory does not exist
\* (pandas before 1.3: FileNotFoundError from open); nothing is written then
SaveMatrix ==
    /\ vpc = "save"
    /\ IF ~fs.dir
       THEN /\ Raise("Cannot save file into a non-existent directory: 'out'")
            /\ UNCHANGED <<fs, log>>
       ELSE /\ fs' = [fs EXCEPT !.matrix = MatrixFile(df_filtered.rows)]
            /\ log' = Append(log, "write validated_matrix.tsv")
            /\ vpc' = "report"
            /\ UNCHANGED err
    /\ UNCHANGED <<seqVars, cntVars>>
    /\ UNCHANGED <<argc, input, fs0, df, df_filtered, exitCode, stdout>>

\* lines 35-48, then main returns and the interpreter exits with status 0
WriteReport ==
    /\ vpc = "report"
    /\ fs' = [fs EXCEPT !.report = ReportFile(SummaryReport(df.rows, df_filtered.rows))]
    /\ log' = Append(log, "write validation_report.txt")
    /\ stdout' = stdout \o <<"Validation completed successfully", "Output files">>
    /\ exitCode' = 0
    /\ vpc' = "exited"
    /\ UNCHANGED <<seqVars, cntVars>>
    /\ UNCHANGED <<argc, input, fs0, df, df_filtered, err>>

\* lines 50-53
ExceptMakedirs ==
    /\ vpc = "except"
    /\ stdout' = Append(stdout, "Validation failed: " \o err)
    /\ fs' = [fs EXCEPT !.dir = TRUE]
    /\ log' = Append(log, "makedirs")
    /\ vpc' = "error_report"
    /\ UNCHANGED <<seqVars, cntVars>>
    /\ UNCHANGED <<argc, input, fs0, df, df_filtered, err, exitCode>>

\* lines 54-57
ExceptWriteReportExitZero ==
    /\ vpc = "error_report"
    /\ fs' = [fs EXCEPT !.report = ReportFile(ErrorReport(err))]
    /\ log' = Append(log, "write validation_report.txt")
    /\ exitCode' = 0
    /\ vpc' = "exited"
    /\ UNCHANGED <<seqVars, cntVars>>
    /\ UNCHANGED <<argc, input, fs0, df, df_filtered, err, stdout>>
ExceptWriteReport ==
    /\ vpc = "error_report"
    /\ fs' = [fs EXCEPT !.report = ReportFile(ErrorReport(err))]
    /\ log' = Append(log, "write validation_report.txt")
    /\ exitCode' = 1
    /\ vpc' = "exited"
    /\ UNCHANGED <<seqVars, cntVars>>
    /\ UNCHANGED <<argc, input, fs0, df, df_filtered, err, stdout>>

ValNext ==
    \/ CheckArgs
    \/ ReadCsv
    \/ CheckColumns
    \/ FilterCounts
    \/ SaveMatrix
    \/ WriteReport
    \/ ExceptMakedirs
    \/ ExceptWriteReport

SpecValidate == ValInit /\ [][ValNext]_vars

-----------------------------------------------------------------------------
(* Properties of validate_input.py, checked under SpecValidate              *)

Exited == vpc = "exited"

\* the file cannot be parsed, or parses without one of the three columns
Unusable(f) == f.kind \in {"missing", "empty"} \/ ~(Cols \subseteq f.header)

\* the file parses, has the three columns, and its counts are numbers
WellFormed(f) == f.kind = "table" /\ Cols \subseteq f.header /\ f.numeric

IsSummaryReport(file) ==
    /\ file.exists
    /\ Len(file.lines) = 7
    /\ file.lines[1] = "Input Validation Report"

IsErrorReport(file) ==
    /\ file.exists
    /\ err # NoError
    /\ file.lines = <<"ERROR: " \o err>>

WroteMatrix == "write validated_matrix.tsv" \in Range(log)

\* C1: a run on an input file that cannot be parsed, or that lacks one of
\* gene_idx, cell_idx, count, ends with exit code 1, leaves "ERROR: " followed
\* by the error message in validation_report.txt (for a table, the message
\* naming the missing columns) and does not write validated_matrix.tsv.
C1_RejectsUnusableInput ==
    (Exited /\ argc = 3 /\ Unusable(input)) =>
        /\ exitCode = 1
        /\ IsErrorReport(fs.report)
        /\ input.kind = "table" =>
              err = "Missing required columns: "
                    \o PyListRepr(SelectSeq(required_cols, LAMBDA c : c \notin input.header))
        /\ ~WroteMatrix
        /\ fs.matrix = fs0.matrix

\* a table missing only count has been rejected
C1_Witness ==
    /\ Exited
    /\ argc = 3
    /\ input.kind = "table"
    /\ input.header = {"gene_idx", "cell_idx"}
    /\ exitCode = 1
    /\ fs.report.lines = <<"ERROR: Missing required columns: ['count']">>

\* C2: after an accepted run, validated_matrix.tsv holds exactly the input
\* rows with count > 0, in input order and unchanged, and the report counts
\* the input rows and the strictly positive rows.
C2_KeepsExactlyPositiveRows ==
    (Exited /\ exitCode = 0) =>
        LET in  == input.rows
            out == fs.matrix.rows
            pos == {j \in DOMAIN in : in[j].count > 0}
        IN  /\ fs.matrix.exists
            /\ \E f \in [DOMAIN out -> DOMAIN in] :
                  /\ \A i, j \in DOMAIN out : i < j => f[i] < f[j]
                  /\ {f[i] : i \in DOMAIN out} = pos
                  /\ \A i \in DOMAIN out : out[i] = in[f[i]]
            /\ fs.report.lines[3] = "Original entries: " \o ToString(Len(in))
            /\ fs.report.lines[4] = "Non-zero entries: " \o ToString(Cardinality(pos))

\* a negative row was dropped and the positive row after it kept
C2_Witness ==
    /\ Exited
    /\ exitCode = 0
    /\ Len(input.rows) = 2
    /\ input.rows[1].count < 0
    /\ input.rows[2].count > 0
    /\ fs.matrix.rows = <<input.rows[2]>>

\* C3: a run on a table with the three columns and numeric counts writes
\* validated_matrix.tsv and a summary report and exits 0, whether or not the
\* output directory existed before the run.
C3_AcceptsWellFormedInput ==
    (Exited /\ argc = 3 /\ WellFormed(input)) =>
        /\ exitCode = 0
        /\ WroteMatrix
        /\ fs.matrix.exists
        /\ IsSummaryReport(fs.report)

\* C4: exit code 0 comes only after validated_matrix.tsv and then the summary
\* report were written; exit code 1 on a validation failure only after the
\* output directory was made to exist and the error report written; never
\* exit code 0 with an ERROR report.
C4_ExitOrder ==
    LET n == Len(log)
    IN  /\ exitCode = 0 =>
              /\ n >= 2
              /\ log[n - 1] = "write validated_matrix.tsv"
              /\ log[n] = "write validation_report.txt"
              /\ fs.matrix.exists
              /\ IsSummaryReport(fs.report)
        /\ (exitCode = 1 /\ argc = 3) =>
              /\ n >= 2
              /\ log[n - 1] = "makedirs"
              /\ log[n] = "write validation_report.txt"
              /\ fs.dir
              /\ IsErrorReport(fs.report)
        /\ ~(exitCode = 0 /\ ~IsSummaryReport(fs.report))
        /\ (exitCode = Running) = ~Exited

\* a failed run created the output directory before exiting with 1
C4_Witness ==
    /\ Exited
    /\ exitCode = 1
    /\ argc = 3
    /\ ~fs0.dir
    /\ fs.dir
    /\ log[Len(log)] = "write validation_report.txt"

\* C18: a run with a number of arguments other than two (len(sys.argv) other
\* than 3) prints the usage line and exits with code 1; it reads no input,
\* makes no directory and writes neither validated_matrix.tsv nor
\* validation_report.txt: the output directory is as it was before the run.
C18_UsageExitLeavesFilesAlone ==
    (Exited /\ argc # 3) =>
        /\ exitCode = 1
        /\ stdout = <<"Usage: python validate_input.py <input_file> <output_dir>">>
        /\ log = <<>>
        /\ fs = fs0
        /\ df = NoTable
        /\ df_filtered = NoTable
        /\ err = NoError

\* three arguments, a readable table and no output directory: the run ended
\* at the usage line and the directory is still missing
C18_Witness ==
    /\ Exited
    /\ argc = 4
    /\ WellFormed(input)
    /\ ~fs0.dir
    /\ ~fs.dir
    /\ exitCode = 1
    /\ Len(stdout) = 1

-----------------------------------------------------------------------------
(* generate_data.py: transcripts and the k-mer index                        *)

bases == <<"A", "T", "G", "C">>

\* a dict is the sequence of its items in insertion order
HasKey(d, key) == \E i \in DOMAIN d : d[i].key = key
Get(d, key) == d[CHOOSE i \in DOMAIN d : d[i].key = key].value
Keys(d) == [i \in DOMAIN d |-> d[i].key]

\* line 19: f"transcript_{i:04d}"
TranscriptId(i) == "transcript_" \o ZeroPad(i, 4)

\* the dict generate_transcript_sequences builds from these sequences
MakeTranscripts(seqs) == [i \in DOMAIN seqs |-> [key |-> TranscriptId(i - 1), value |-> seqs[i]]]

\* lines 11-14: sequence[i:i+k] for i in range(len(sequence) - k + 1)
KmersOffByOne(sequence, k) ==
    IF Len(sequence) < k THEN <<>>
    ELSE [i \in 1..(Len(sequence) - k) |-> SubSeq(sequence, i, i + k - 1)]
generate_kmers_from_sequence(sequence, k) ==
    IF Len(sequence) < k THEN <<>>
    ELSE [i \in 1..(Len(sequence) - k + 1) |-> SubSeq(sequence, i, i + k - 1)]

\* lines 31-33
DictAppend(d, key, v) ==
    IF HasKey(d, key)
    THEN [i \in DOMAIN d |-> IF d[i].key = key THEN [d[i] EXCEPT !.value = Append(@, v)] ELSE d[i]]
    ELSE Append(d, [key |-> key, value |-> <<v>>])

\* lines 30-33: for kmer in kmers
RECURSIVE AppendKmers(_, _, _)
AppendKmers(d, kmers, transcript_id) ==
    IF kmers = <<>> THEN d
    ELSE AppendKmers(DictAppend(d, Head(kmers), transcript_id), Tail(kmers), transcript_id)

\* lines 26-33: for transcript_id, sequence in transcripts.items()
RECURSIVE KmerToTranscripts(_, _, _)
KmerToTranscripts(d, ts, k) ==
    IF ts = <<>> THEN d
    ELSE KmerToTranscripts(
             AppendKmers(d, generate_kmers_from_sequence(Head(ts).value, k), Head(ts).key),
             Tail(ts), k)

\* line 39: list(set(transcript_list)).  A set of strings is listed in the
\* order of the strings' hashes, which the interpreter salts anew at every
\* start (PYTHONHASHSEED unset): hash_order is the order the salt of this
\* process gives the transcript identifiers.
ListOfSetKeepsDuplicates(transcript_list, hash_order) == transcript_list
ListOfSet(transcript_list, hash_order) ==
    SelectSeq(hash_order, LAMBDA t : t \in Range(transcript_list))

\* lines 35-41
KmerIndex(d, hash_order) ==
    [i \in DOMAIN d |->
        [kmer |-> d[i].key,
         transcripts |-> ListOfSet(d[i].value, hash_order),
         transcript_positions |-> "None"]]

\* generate_kmer_index(transcripts, kmer_length), lines 25-43
GenerateKmerIndex ==
    /\ spc = "kmer_index"
    /\ kmers_by_transcript' =
           [i \in DOMAIN transcripts |->
               generate_kmers_from_sequence(transcripts[i].value, kmer_length)]
    /\ kmer_to_transcripts' = KmerToTranscripts(<<>>, transcripts, kmer_length)
    /\ \E hash_order \in Perms(Range(Keys(transcripts))) :
           kmer_index' = KmerIndex(kmer_to_transcripts', hash_order)
    /\ spc' = "kmer_index_built"
    /\ UNCHANGED <<num_transcripts, kmer_length, total_reads, read_length, error_rate,
                   transcripts, expression_profile, transcript_reads, reads_per_transcript,
                   reads, run, tape, files, files1>>
    /\ UNCHANGED <<valVars, cntVars, errVars>>

\* every way to give n transcripts at most budget bases in all
RECURSIVE SequenceLists(_, _)
SequenceLists(n, budget) ==
    IF n = 0 THEN {<<>>}
    ELSE UNION {{<<s>> \o rest : rest \in SequenceLists(n - 1, budget - Len(s))} :
                   s \in SeqsUpTo(Range(bases), budget)}

\* two transcripts of length 10 that share 3-mers
ExampleSequences ==
    << <<"A","T","G","C","A","T","G","C","A","T">>,
       <<"G","C","A","T","G","C","A","T","G","G">> >>

TranscriptDicts ==
    {MakeTranscripts(seqs) : seqs \in UNION {SequenceLists(n, MaxBases) : n \in 0..MaxTranscripts}}
    \cup {MakeTranscripts(ExampleSequences)}

KmerInit ==
    /\ ValIdle
    /\ CntIdle
    /\ spc = "kmer_index"
    /\ transcripts \in TranscriptDicts
    /\ num_transcripts = Len(transcripts)
    /\ kmer_length \in 1..MaxK
    /\ total_reads = 0 /\ read_length = 0 /\ error_rate = 0
    /\ expression_profile = <<>>
    /\ kmers_by_transcript = <<>> /\ kmer_to_transcripts = <<>> /\ kmer_index = <<>>
    /\ transcript_reads = <<>> /\ reads_per_transcript = <<>> /\ reads = <<>> /\ run = 1 /\ tape = NoTape
    /\ files = NoFiles /\ files1 = NoFiles
    /\ ErrIdle

KmerNext == GenerateKmerIndex

SpecKmer == KmerInit /\ [][KmerNext]_vars

-----------------------------------------------------------------------------
(* Properties of the k-mer index, checked under SpecKmer                    *)

IndexBuilt == spc = "kmer_index_built"

\* the sequence contains the k-mer as a contiguous substring
Contains(sequence, kmer) ==
    \E i \in 1..Len(sequence) :
        /\ i + Len(kmer) - 1 <= Len(sequence)
        /\ \A j \in 1..Len(kmer) : sequence[i + j - 1] = kmer[j]

\* all strings of length k over the alphabet that occur in some transcript
OccurringKmers ==
    {kmer \in [1..kmer_length -> Range(bases)] :
        \E t \in DOMAIN transcripts : Contains(transcripts[t].value, kmer)}

\* C5: the index has exactly one record per distinct length-k substring of
\* any transcript, and a record lists, without duplicates, exactly the
\* transcripts that contain its k-mer.
C5_IndexIsMembership ==
    IndexBuilt =>
        /\ \A i, j \in DOMAIN kmer_index : i # j => kmer_index[i].kmer # kmer_index[j].kmer
        /\ {kmer_index[i].kmer : i \in DOMAIN kmer_index} = OccurringKmers
        /\ \A i \in DOMAIN kmer_index :
              LET listed == kmer_index[i].transcripts
              IN  /\ \A a, b \in DOMAIN listed : a # b => listed[a] # listed[b]
                  /\ Range(listed) =
                        {transcripts[t].key : t \in
                            {u \in DOMAIN transcripts :
                                Contains(transcripts[u].value, kmer_index[i].kmer)}}

\* a k-mer that occurs twice in the first transcript and once in the second
\* is listed with both transcripts, once each
C5_Witness ==
    /\ IndexBuilt
    /\ Len(transcripts) = 2
    /\ \E i \in DOMAIN kmer_index :
          /\ Len(kmer_index[i].transcripts) = 2
          /\ \E e \in DOMAIN kmer_to_transcripts :
                /\ kmer_to_transcripts[e].key = kmer_index[i].kmer
                /\ Len(kmer_to_transcripts[e].value) = 3

\* C6: generate_kmers_from_sequence returns len - k + 1 k-mers, the i-th
\* being the k bases from position i, and none when the sequence is shorter
\* than k; the lists of the index then hold one entry per k-mer occurrence,
\* N * (L - k + 1) for N transcripts of length L >= k.
C6_KmerCount ==
    IndexBuilt =>
        /\ \A t \in DOMAIN transcripts :
              LET sequence == transcripts[t].value
                  kmers == kmers_by_transcript[t]
              IN  /\ Len(kmers) = IF Len(sequence) >= kmer_length
                                  THEN Len(sequence) - kmer_length + 1 ELSE 0
                  /\ \A i \in DOMAIN kmers :
                        /\ Len(kmers[i]) = kmer_length
                        /\ \A j \in 1..kmer_length : kmers[i][j] = sequence[i + j - 1]
        /\ SumSeq([e \in DOMAIN kmer_to_transcripts |-> Len(kmer_to_transcripts[e].value)])
             = SumSeq([t \in DOMAIN transcripts |->
                          IF Len(transcripts[t].value) >= kmer_length
                          THEN Len(transcripts[t].value) - kmer_length + 1 ELSE 0])
        /\ \A L \in {Len(transcripts[t].value) : t \in DOMAIN transcripts} :
              (L >= kmer_length /\ \A t \in DOMAIN transcripts : Len(transcripts[t].value) = L) =>
                  SumSeq([e \in DOMAIN kmer_to_transcripts |-> Len(kmer_to_transcripts[e].value)])
                      = Len(transcripts) * (L - kmer_length + 1)

\* 2 transcripts of length 10 with k = 3 gave 16 k-mer occurrences
C6_Witness ==
    /\ IndexBuilt
    /\ Len(transcripts) = 2
    /\ \A t \in DOMAIN transcripts : Len(transcripts[t].value) = 10
    /\ kmer_length = 3
    /\ SumSeq([e \in DOMAIN kmer_to_transcripts |-> Len(kmer_to_transcripts[e].value)]) = 16

-----------------------------------------------------------------------------
(* generate_data.py: expression-weighted reads                              *)

\* --error-rate in percent: random.random() < error_rate never holds at 0,
\* always at 100, and may or may not hold in between
ErrorRates == {0, 50, 100}

\* lines 82-90: int(total_reads * (expr / total_expression)).  Expressions
\* are exp(x) > 0; here whole numbers, and the quotient exact (the float
\* product agrees with it on the values used here).
TranscriptReads(profile, n) ==
    LET total_expression == SumSeq([i \in DOMAIN profile |-> profile[i].value])
    IN  [i \in DOMAIN profile |->
            [key |-> profile[i].key, value |-> (n * profile[i].value) \div total_expression]]

\* line 102: transcript_seq[start_pos:start_pos + read_length]
WindowShort(sequence, start_pos, length) == SubSeq(sequence, start_pos + 1, start_pos + length - 1)
Window(sequence, start_pos, length) == SubSeq(sequence, start_pos + 1, start_pos + length)

\* line 52: [b for b in bases if b != original_base]
NewBasesAny(original_base) == Range(bases)
NewBases(original_base) == {b \in Range(bases) : b # original_base}

\* lines 50-53: what a position can hold after the loop body
ErrorChoices(original_base, rate) ==
    (IF rate < 100 THEN {original_base} ELSE {})
        \cup (IF rate > 0 THEN NewBases(original_base) ELSE {})

\* lines 45-55: the sequences introduce_errors can return
introduce_errors(sequence, rate) ==
    {r \in [1..Len(sequence) -> Range(bases)] :
        \A i \in 1..Len(sequence) : r[i] \in ErrorChoices(sequence[i], rate)}

\* lines 101-105: the reads one pass of the inner loop can append
PossibleReads(transcript_seq, length, rate) ==
    UNION {IF rate > 0 THEN introduce_errors(Window(transcript_seq, start_pos, length), rate)
                       ELSE {Window(transcript_seq, start_pos, length)} :
              start_pos \in 0..(Len(transcript_seq) - length)}

\* lines 92-107 for one item of transcript_reads: the lists of reads it can add
ReadsOfTranscript(ts, transcript_id, num_reads, length, rate) ==
    IF ~HasKey(ts, transcript_id) THEN {<<>>}
    ELSE IF Len(Get(ts, transcript_id)) < length THEN {<<>>}
    ELSE [1..num_reads -> PossibleReads(Get(ts, transcript_id), length, rate)]

\* lines 92-107 for the first n items: what each pass can add, pass by pass
RECURSIVE ReadsByTranscript(_, _, _, _, _)
ReadsByTranscript(ts, allotted, n, length, rate) ==
    IF n = 0 THEN {<<>>}
    ELSE {Append(before, added) :
              before \in ReadsByTranscript(ts, allotted, n - 1, length, rate),
              added \in ReadsOfTranscript(ts, allotted[n].key, allotted[n].value, length, rate)}

RECURSIVE Flatten(_)
Flatten(lists) == IF lists = <<>> THEN <<>> ELSE Head(lists) \o Flatten(Tail(lists))

\* line 109: random.shuffle
Shuffles(list) == {[i \in DOMAIN list |-> list[p[i]]] : p \in Perms(DOMAIN list)}

\* generate_weighted_reads(transcripts, expression_profile, total_reads,
\* read_length, error_rate), lines 79-110.  In the second run of main the
\* generator, seeded alike, repeats the draws of the first run.
GenerateWeightedReads ==
    /\ spc = "weighted_reads"
    /\ transcript_reads' = TranscriptReads(expression_profile, total_reads)
    /\ \E by \in ReadsByTranscript(transcripts, transcript_reads', Len(transcript_reads'),
                                   read_length, error_rate) :
          /\ reads_per_transcript' = [i \in DOMAIN by |-> Len(by[i])]
          /\ IF run = 2
             THEN reads' = tape.reads
             ELSE reads' \in Shuffles(Flatten(by))
    /\ tape' = [tape EXCEPT !.reads = reads']
    /\ spc' = "weighted_reads_done"
    /\ UNCHANGED <<num_transcripts, kmer_length, total_reads, read_length, error_rate,
                   transcripts, expression_profile, kmers_by_transcript, kmer_to_transcripts,
                   kmer_index, run, files, files1>>
    /\ UNCHANGED <<valVars, cntVars, errVars>>

\* the first n bases of ATGCATGC...
Pattern(n) == [i \in 1..n |-> bases[((i - 1) % 4) + 1]]

\* every way to give n transcripts at most budget bases in all, as lengths
RECURSIVE LengthLists(_, _)
LengthLists(n, budget) ==
    IF n = 0 THEN {<<>>}
    ELSE UNION {{<<len>> \o rest : rest \in LengthLists(n - 1, budget - len)} : len \in 0..budget}

ReadSources ==
    {MakeTranscripts([i \in DOMAIN lens |-> Pattern(lens[i])]) :
        lens \in UNION {LengthLists(n, MaxBases) : n \in 0..MaxTranscripts}}

\* line 73-75: a profile of m transcripts
MakeProfile(levels) == [i \in DOMAIN levels |-> [key |-> TranscriptId(i - 1), value |-> levels[i]]]

ReadsInit ==
    /\ ValIdle
    /\ CntIdle
    /\ spc = "weighted_reads"
    /\ transcripts \in ReadSources
    /\ num_transcripts = Len(transcripts)
    /\ expression_profile \in {MakeProfile(levels) : levels \in [1..num_transcripts -> 1..MaxExpr]}
    /\ total_reads \in 0..MaxReadBases
    /\ read_length \in {l \in 1..MaxReadBases : total_reads * l <= MaxReadBases}
    /\ error_rate \in ErrorRates
    /\ kmer_length = 0
    /\ kmers_by_transcript = <<>> /\ kmer_to_transcripts = <<>> /\ kmer_index = <<>>
    /\ transcript_reads = <<>> /\ reads_per_transcript = <<>> /\ reads = <<>>
    /\ run = 1 /\ tape = NoTape
    /\ files = NoFiles /\ files1 = NoFiles
    /\ ErrIdle

ReadsNext == GenerateWeightedReads

SpecReads == ReadsInit /\ [][ReadsNext]_vars

-----------------------------------------------------------------------------
(* generate_data.py: introduce_errors, called on its own                    *)

\* line 50: the sets of positions at which random.random() < error_rate
\* can hold
ErrorPositions(n, rate) ==
    {hit \in SUBSET (1..n) : (rate <= 0 => hit = {}) /\ (rate >= 100 => hit = 1..n)}

\* introduce_errors(sequence, error_rate), lines 45-55
IntroduceErrors ==
    /\ spc = "introduce_errors"
    /\ error_positions' \in ErrorPositions(Len(in_sequence), error_rate)
    /\ seq_list' \in {r \in [1..Len(in_sequence) -> Range(bases)] :
                         \A i \in 1..Len(in_sequence) :
                             IF i \in error_positions'
                             THEN r[i] \in NewBases(in_sequence[i])
                             ELSE r[i] = in_sequence[i]}
    /\ spc' = "introduce_errors_done"
    /\ UNCHANGED <<num_transcripts, kmer_length, total_reads, read_length, error_rate,
                   transcripts, expression_profile, kmers_by_transcript, kmer_to_transcripts,
                   kmer_index, transcript_reads, reads_per_transcript, reads, run, tape,
                   files, files1, in_sequence>>
    /\ UNCHANGED <<valVars, cntVars>>

\* one call of introduce_errors, or one of generate_weighted_reads
ErrorsInit ==
    \/ ReadsInit
    \/ /\ ValIdle
       /\ CntIdle
       /\ spc = "introduce_errors"
       /\ in_sequence \in SeqsUpTo(Range(bases), MaxReadBases)
       /\ error_rate \in ErrorRates
       /\ error_positions = {}
       /\ seq_list = <<>>
       /\ num_transcripts = 0 /\ kmer_length = 0 /\ total_reads = 0 /\ read_length = 0
       /\ transcripts = <<>> /\ expression_profile = <<>>
       /\ kmers_by_transcript = <<>> /\ kmer_to_transcripts = <<>> /\ kmer_index = <<>>
       /\ transcript_reads = <<>> /\ reads_per_transcript = <<>> /\ reads = <<>>
       /\ run = 1 /\ tape = NoTape
       /\ files = NoFiles /\ files1 = NoFiles

ErrorsNext ==
    \/ IntroduceErrors
    \/ GenerateWeightedReads

SpecErrors == ErrorsInit /\ [][ErrorsNext]_vars

-----------------------------------------------------------------------------
(* Properties of the reads, checked under SpecReads                         *)

ReadsDone == spc = "weighted_reads_done"

\* C7: every returned read has exactly read_length bases, all of A, T, G, C,
\* at every error rate; a transcript shorter than read_length and a transcript
\* allotted 0 reads contribute no read, and the call still returns.
C7_ReadsHaveReadLength ==
    ReadsDone =>
        /\ \A r \in DOMAIN reads :
              /\ Len(reads[r]) = read_length
              /\ Range(reads[r]) \subseteq {"A", "T", "G", "C"}
        /\ Len(reads) = SumSeq(reads_per_transcript)
        /\ \A i \in DOMAIN transcript_reads :
              LET short == \E t \in DOMAIN transcripts :
                               /\ transcripts[t].key = transcript_reads[i].key
                               /\ Len(transcripts[t].value) < read_length
              IN  (short \/ transcript_reads[i].value = 0) => reads_per_transcript[i] = 0

\* reads with substitutions came back while a shorter transcript, allotted
\* a read, gave none
C7_Witness ==
    /\ ReadsDone
    /\ error_rate = 50
    /\ Len(reads) >= 1
    /\ \E r \in DOMAIN reads : \A t \in DOMAIN transcripts :
          ~Contains(transcripts[t].value, reads[r])
    /\ \E i \in DOMAIN transcript_reads :
          /\ transcript_reads[i].value >= 1
          /\ Len(Get(transcripts, transcript_reads[i].key)) < read_length
          /\ reads_per_transcript[i] = 0

\* C9: when every transcript (there is at least one, each with its expression)
\* is at least read_length long, the call returns exactly total_reads reads.
C9_ReturnsTotalReads ==
    (/\ ReadsDone
     /\ Len(transcripts) >= 1
     /\ Len(expression_profile) = Len(transcripts)
     /\ \A t \in DOMAIN transcripts : Len(transcripts[t].value) >= read_length)
    => Len(reads) = total_reads

-----------------------------------------------------------------------------
(* generate_data.py: main, run twice with the same arguments and seed       *)

\* lines 121-126: parse_args, random.seed(args.seed), os.makedirs
MainStart ==
    /\ spc = "main"
    /\ spc' = "transcripts"
    /\ UNCHANGED <<num_transcripts, kmer_length, total_reads, read_length, error_rate,
                   transcripts, expression_profile, kmers_by_transcript, kmer_to_transcripts,
                   kmer_index, transcript_reads, reads_per_transcript, reads, run, tape,
                   files, files1>>
    /\ UNCHANGED <<valVars, cntVars, errVars>>

\* line 128, lines 16-23: generate_transcript_sequences(args.num_transcripts).
\* main keeps the defaults min_length = 500 and max_length = 3000; the lengths
\* are scaled to 1..MaxLength.  What the seeded generator yields in the first
\* run it yields again in the second.
GenerateTranscriptSequences ==
    /\ spc = "transcripts"
    /\ IF run = 2
       THEN transcripts' = tape.transcripts
       ELSE transcripts' \in
                {MakeTranscripts(seqs) :
                    seqs \in [1..num_transcripts ->
                                 {q \in SeqsUpTo(Range(bases), MaxLength) : Len(q) >= 1}]}
    /\ tape' = [tape EXCEPT !.transcripts = transcripts']
    /\ spc' = "expression"
    /\ UNCHANGED <<num_transcripts, kmer_length, total_reads, read_length, error_rate,
                   expression_profile, kmers_by_transcript, kmer_to_transcripts,
                   kmer_index, transcript_reads, reads_per_transcript, reads, run,
                   files, files1>>
    /\ UNCHANGED <<valVars, cntVars, errVars>>

\* line 129, lines 68-77: generate_expression_profile(args.num_transcripts)
GenerateExpressionProfile ==
    /\ spc = "expression"
    /\ IF run = 2
       THEN expression_profile' = tape.expression_profile
       ELSE expression_profile' \in
                {MakeProfile(levels) : levels \in [1..num_transcripts -> 1..MaxExpr]}
    /\ tape' = [tape EXCEPT !.expression_profile = expression_profile']
    /\ spc' = "kmer_index"
    /\ UNCHANGED <<num_transcripts, kmer_length, total_reads, read_length, error_rate,
                   transcripts, kmers_by_transcript, kmer_to_transcripts,
                   kmer_index, transcript_reads, reads_per_transcript, reads, run,
                   files, files1>>
    /\ UNCHANGED <<valVars, cntVars, errVars>>

\* lines 132-133: json.dump(kmer_index, f, indent=2)
DumpKmerIndex ==
    /\ spc = "kmer_index_built"
    /\ files' = [files EXCEPT !.kmer_index = kmer_index]
    /\ spc' = "weighted_reads"
    /\ UNCHANGED <<num_transcripts, kmer_length, total_reads, read_length, error_rate,
                   transcripts, expression_profile, kmers_by_transcript, kmer_to_transcripts,
                   kmer_index, transcript_reads, reads_per_transcript, reads, run, tape,
                   files1>>
    /\ UNCHANGED <<valVars, cntVars, errVars>>

\* lines 57-66: write_fastq
Fastq(read_list) ==
    [i \in DOMAIN read_list |->
        [id |-> "@read_" \o ZeroPad(i - 1, 8),
         sequence |-> read_list[i],
         separator |-> "+",
         quality |-> [j \in DOMAIN read_list[i] |-> "I"]]]

\* lines 145-147
Fasta(ts) == [i \in DOMAIN ts |-> [header |-> ">" \o ts[i].key, sequence |-> ts[i].value]]

\* lines 149-152: the header, then sorted(expression_profile.items()) with
\* the expression as "{expr:.6f}".  The keys are zero-padded to four digits,
\* so below 10000 transcripts their order as strings is the order of their
\* numbers.
TrueExpression(profile) ==
    <<"transcript_id\ttrue_expression">>
    \o [i \in DOMAIN profile |->
           TranscriptId(i - 1) \o "\t" \o ToString(Get(profile, TranscriptId(i - 1))) \o ".000000"]

\* lines 143-152, then the process ends
WriteOutputs ==
    /\ spc = "weighted_reads_done"
    /\ files' = [files EXCEPT !.reads = Fastq(reads),
                              !.transcripts = Fasta(transcripts),
                              !.true_expression = TrueExpression(expression_profile)]
    /\ spc' = "exited"
    /\ UNCHANGED <<num_transcripts, kmer_length, total_reads, read_length, error_rate,
                   transcripts, expression_profile, kmers_by_transcript, kmer_to_transcripts,
                   kmer_index, transcript_reads, reads_per_transcript, reads, run, tape,
                   files1>>
    /\ UNCHANGED <<valVars, cntVars, errVars>>

\* the same command line again: a new process, the files of the first run
\* still under data/
SecondRun ==
    /\ spc = "exited"
    /\ run = 1
    /\ run' = 2
    /\ files1' = files
    /\ spc' = "main"
    /\ transcripts' = <<>> /\ expression_profile' = <<>>
    /\ kmers_by_transcript' = <<>> /\ kmer_to_transcripts' = <<>> /\ kmer_index' = <<>>
    /\ transcript_reads' = <<>> /\ reads_per_transcript' = <<>> /\ reads' = <<>>
    /\ UNCHANGED <<num_transcripts, kmer_length, total_reads, read_length, error_rate,
                   tape, files>>
    /\ UNCHANGED <<valVars, cntVars, errVars>>

MainInit ==
    /\ ValIdle
    /\ CntIdle
    /\ spc = "main"
    /\ num_transcripts \in 1..MaxTranscripts
    /\ kmer_length \in 1..MaxLength
    /\ total_reads \in 0..1
    /\ read_length = 1
    /\ error_rate \in {0, 50}
    /\ transcripts = <<>> /\ expression_profile = <<>>
    /\ kmers_by_transcript = <<>> /\ kmer_to_transcripts = <<>> /\ kmer_index = <<>>
    /\ transcript_reads = <<>> /\ reads_per_transcript = <<>> /\ reads = <<>>
    /\ run = 1 /\ tape = NoTape
    /\ files = NoFiles /\ files1 = NoFiles
    /\ ErrIdle

MainNext ==
    \/ MainStart
    \/ GenerateTranscriptSequences
    \/ GenerateExpressionProfile
    \/ GenerateKmerIndex
    \/ DumpKmerIndex
    \/ GenerateWeightedReads
    \/ WriteOutputs
    \/ SecondRun

SpecMain == MainInit /\ [][MainNext]_vars

-----------------------------------------------------------------------------
(* Properties of main, checked under SpecMain                               *)

BothRunsDone == run = 2 /\ spc = "exited"

\* C8: two runs with the same seed and arguments leave byte-identical
\* kmer_index.json, reads.fastq, transcripts.fasta and true_expression.tsv,
\* the order inside each record's 'transcripts' list included.
C8_RunsAreIdentical ==
    BothRunsDone =>
        /\ files.kmer_index = files1.kmer_index
        /\ files.reads = files1.reads
        /\ files.transcripts = files1.transcripts
        /\ files.true_expression = files1.true_expression

-----------------------------------------------------------------------------
(* generate_sample_data.py (9.3) and generate_the_data.py (9.4): the count  *)
(* tables                                                                   *)

\* line 18 of both files: f"GENE_{i:05d}" for i in range(1, n_genes + 1)
GeneId(i) == "GENE_" \o ZeroPad(i, 5)
Genes(n) == [i \in 1..n |-> GeneId(i)]

conditions == <<"Control", "Treatment">>
batches == <<"Batch1", "Batch2", "Batch3">>

\* 9.3 lines 25-28, i from 0:
\* f"{condition}_{batch}_Rep{i//len(conditions) + 1}"
BulkSampleIdNoReplicate(i) ==
    conditions[(i % Len(conditions)) + 1] \o "_" \o batches[(i % Len(batches)) + 1]
BulkSampleId(i) ==
    conditions[(i % Len(conditions)) + 1] \o "_" \o batches[(i % Len(batches)) + 1]
        \o "_Rep" \o ToString((i \div Len(conditions)) + 1)
BulkSamples(n) == [i \in 1..n |-> BulkSampleId(i - 1)]

\* 9.4 lines 21-23
DeSamples(per_group) ==
    [i \in 1..per_group |-> "Control_Rep" \o ToString(i)]
    \o [i \in 1..per_group |-> "Treatment_Rep" \o ToString(i)]

\* 9.3 lines 36-66: one row per gene and sample, genes outermost.  The
\* count is a Poisson draw around a positive mean, so any number from 0 on;
\* draw[r] is the draw of row r.
BulkRows(genes, sample_ids, draw) ==
    [r \in 1..(Len(genes) * Len(sample_ids)) |->
        [gene_id   |-> genes[((r - 1) \div Len(sample_ids)) + 1],
         sample_id |-> sample_ids[((r - 1) % Len(sample_ids)) + 1],
         count     |-> draw[r]]]

\* the text that can stand before and after a word of a 9.3 sample
\* identifier whose replicate number is at most n
Before ==
    {""} \cup {c \o "_" : c \in Range(conditions)}
         \cup {c \o "_" \o b \o "_" : c \in Range(conditions), b \in Range(batches)}
After(n) ==
    {""} \cup {"_Rep" \o ToString(k) : k \in 1..n}
         \cup {"_" \o b \o "_Rep" \o ToString(k) : b \in Range(batches), k \in 1..n}

\* Python's  word in text  (9.3 lines 43, 45, 50)
InText(word, text, n) == \E pre \in Before, post \in After(n) : pre \o word \o post = text

\* 9.3 line 50: gene.endswith(('1', '2', '3', '4', '5')), gene one of the
\* first n identifiers
EndsWithAny(gene, endings, n) ==
    \E d \in Range(endings), stem \in 0..(n \div 10) :
        "GENE_" \o ZeroPad(stem, 4) \o d = gene

\* 9.3 line 52: int(gene.split('_')[1])
GeneNumber(gene, n) == CHOOSE i \in 1..n : "GENE_" \o ZeroPad(i, 5) = gene

\* 9.3 lines 42-46, in tenths
BatchEffect(sample, n) ==
    IF InText("Batch2", sample, n) THEN 15
    ELSE IF InText("Batch3", sample, n) THEN 7
    ELSE 10

\* 9.3 lines 49-55, in tenths
TreatmentEffectAnyGene(gene, sample, n_ids, n_reps) ==
    IF InText("Treatment", sample, n_reps)
    THEN IF GeneNumber(gene, n_ids) % 2 = 0 THEN 20 ELSE 5
    ELSE 10
TreatmentEffect(gene, sample, n_ids, n_reps) ==
    IF InText("Treatment", sample, n_reps)
       /\ EndsWithAny(gene, <<"1", "2", "3", "4", "5">>, n_ids)
    THEN IF GeneNumber(gene, n_ids) % 2 = 0 THEN 20 ELSE 5
    ELSE 10

\* 9.3 lines 42-55 for every row, genes outermost
BulkEffects(genes, sample_ids) ==
    LET batch_effect == [x \in DOMAIN sample_ids |->
                            BatchEffect(sample_ids[x], Len(sample_ids))]
        treatment_effect ==
            [g \in DOMAIN genes |-> [x \in DOMAIN sample_ids |->
                TreatmentEffect(genes[g], sample_ids[x], Len(genes), Len(sample_ids))]]
    IN  [r \in 1..(Len(genes) * Len(sample_ids)) |->
            [batch_effect     |-> batch_effect[((r - 1) % Len(sample_ids)) + 1],
             treatment_effect |-> treatment_effect[((r - 1) \div Len(sample_ids)) + 1]
                                                  [((r - 1) % Len(sample_ids)) + 1]]]

\* 9.4 lines 56 and 82: max(0.1, count), counts in twentieths
MinCount == 2
NotFloored(x) == x
Floored(x) == IF x > MinCount THEN x ELSE MinCount

\* 9.4 lines 51 and 77: the unfloored count is a product of positive
\* factors; the draw 0 stands for a value below the floor, every other draw
\* for one above it (twentieths)
DeValue(draw) == MinCount * draw + 1

\* 9.4 lines 41-83: per gene the control samples, then the treatment
\* samples (all_samples is in that order); draw[r] is the unfloored count of
\* row r.
DeRows(genes, sample_ids, draw) ==
    [r \in 1..(Len(genes) * Len(sample_ids)) |->
        [gene_id   |-> genes[((r - 1) \div Len(sample_ids)) + 1],
         sample_id |-> sample_ids[((r - 1) % Len(sample_ids)) + 1],
         count     |-> Floored(draw[r])]]

\* 9.3 line 15, 9.4 line 15: np.random.seed(42) puts the generator at the
\* start of its stream
KeepState(pos) == pos
np_random_seed(pos) == 0

StreamAt(k) == rng_stream[((k - 1) % Len(rng_stream)) + 1]

\* the draws of the n rows of a table, made after seeding
RowDraws(n) ==
    IF rng_stream = <<>> THEN [1..n -> 0..MaxDraw]
    ELSE {[r \in 1..n |-> StreamAt(np_random_seed(rng_pos) + r)]}

\* 9.3 line 76, 9.4 line 93: a table without rows has no columns, and
\* groupby('sample_id') raises KeyError after the file was written
Returned(rows) == IF rows = <<>> THEN "raised" ELSE "generated"

\* 9.3 generate_count_data(n_genes, n_samples), lines 11-80
GenerateCountData ==
    /\ cpc = "start"
    /\ generator = "bulk"
    /\ samples' = BulkSamples(n_samples)
    /\ effects' = BulkEffects(Genes(n_genes), samples')
    /\ rng_pos' = np_random_seed(rng_pos) + n_genes * n_samples
    /\ \E draw \in RowDraws(n_genes * n_samples) :
          count_data' = BulkRows(Genes(n_genes), samples', draw)
    /\ cpc' = Returned(count_data')
    /\ UNCHANGED <<generator, n_genes, n_samples, rng_stream, runVars, scVars>>
    /\ UNCHANGED <<valVars, seqVars>>

\* 9.4 generate_normalized_counts(n_genes, n_samples_per_group), lines 11-103
GenerateNormalizedCounts ==
    /\ cpc = "start"
    /\ generator = "de"
    /\ samples' = DeSamples(n_samples)
    /\ rng_pos' = np_random_seed(rng_pos) + n_genes * 2 * n_samples
    /\ \E draw \in RowDraws(n_genes * 2 * n_samples) :
          count_data' = DeRows(Genes(n_genes), samples', [r \in DOMAIN draw |-> DeValue(draw[r])])
    /\ cpc' = Returned(count_data')
    /\ UNCHANGED <<generator, n_genes, n_samples, effects, rng_stream, runVars, scVars>>
    /\ UNCHANGED <<valVars, seqVars>>

CountsInit ==
    /\ ValIdle
    /\ SeqIdle
    /\ cpc = "start"
    /\ generator \in {"bulk", "de"}
    /\ n_genes \in 0..MaxGenes
    /\ n_samples \in 0..MaxSamples
    /\ (IF generator = "bulk" THEN n_genes * n_samples ELSE n_genes * 2 * n_samples)
           <= MaxCountRows
    /\ samples = <<>>
    /\ count_data = <<>>
    /\ effects = <<>>
    /\ RngOpen
    /\ RunIdle
    /\ ScIdle

CountsNext ==
    \/ GenerateCountData
    \/ GenerateNormalizedCounts

SpecCounts == CountsInit /\ [][CountsNext]_vars

-----------------------------------------------------------------------------
(* main of 9.3 and of 9.4: one dataset and its metadata, or the presets of  *)
(* --create-test-sets                                                       *)

RECURSIVE JoinUnderscore(_)
JoinUnderscore(parts) ==
    IF Len(parts) = 1 THEN parts[1]
    ELSE parts[1] \o "_" \o JoinUnderscore(Tail(parts))

\* 9.3 line 90: sample.split('_'), for the identifiers with replicate
\* numbers up to n
SplitUnderscore(sample, n) ==
    CHOOSE parts \in Range(conditions) \X Range(batches)
                     \X {"Rep" \o ToString(k) : k \in 1..n} :
        JoinUnderscore(parts) = sample

\* 9.3 lines 88-99
BulkMetadata(sample_ids) ==
    [x \in DOMAIN sample_ids |->
        LET parts == SplitUnderscore(sample_ids[x], Len(sample_ids))
        IN  [sample_id |-> sample_ids[x],
             condition |-> parts[1],
             batch     |-> parts[2],
             replicate |-> IF Len(parts) > 2 THEN parts[3] ELSE "Rep1"]]

\* 9.4 lines 113, 116: sample.startswith(word)
StartsWith(sample, word, n) ==
    \E rest \in {""} \cup {"_Rep" \o ToString(k) : k \in 1..n} : word \o rest = sample

\* 9.4 lines 113-121
DeGroup(sample, n) ==
    IF StartsWith(sample, "Control", n) THEN "Control"
    ELSE IF StartsWith(sample, "Treatment", n) THEN "Treatment"
    ELSE "Unknown"

\* 9.4 line 125: sample.split('_Rep')[1] if '_Rep' in sample else '1'
DeReplicate(sample, n) ==
    LET tails == {k \in 1..n : \E head \in Range(conditions) :
                                  head \o "_Rep" \o ToString(k) = sample}
    IN  IF tails # {} THEN ToString(CHOOSE k \in tails : TRUE) ELSE "1"

\* int(text)
ParseInt(text, n) == CHOOSE k \in 0..n : ToString(k) = text

\* 9.4 line 134: f"Batch{(int(replicate) - 1) % 3 + 1}"
DeBatchNoShift(replicate, n) == "Batch" \o ToString((ParseInt(replicate, n) % 3) + 1)
DeBatch(replicate, n) == "Batch" \o ToString(((ParseInt(replicate, n) - 1) % 3) + 1)

\* 9.4 lines 111-135
DeMetadata(sample_ids) ==
    [x \in DOMAIN sample_ids |->
        LET replicate == DeReplicate(sample_ids[x], Len(sample_ids))
        IN  [sample_id |-> sample_ids[x],
             group     |-> DeGroup(sample_ids[x], Len(sample_ids)),
             condition |-> DeGroup(sample_ids[x], Len(sample_ids)),
             replicate |-> replicate,
             batch     |-> DeBatch(replicate, Len(sample_ids))]]

\* 9.3 lines 113-117 and 9.4 lines 149-153 (samples: samples_per_group), the
\* sizes scaled down
bulk_datasets ==
    << [name |-> "small",  genes |-> 1, samples |-> 2],
       [name |-> "medium", genes |-> 2, samples |-> 3],
       [name |-> "large",  genes |-> 3, samples |-> 4] >>
de_datasets ==
    << [name |-> "small",  genes |-> 1, samples |-> 1],
       [name |-> "medium", genes |-> 2, samples |-> 2],
       [name |-> "large",  genes |-> 3, samples |-> 4] >>
datasets == IF generator = "bulk" THEN bulk_datasets ELSE de_datasets

\* 9.3 line 124, 9.4 line 160
OutputDir(name) == (IF generator = "bulk" THEN "test_data_" ELSE "the_test_data_") \o name

\* 9.3 lines 142-144, 9.4 lines 178-181: the lines under Dataset Information
Readme(dataset) ==
    IF generator = "bulk"
    THEN << "- Number of genes: " \o FormatThousands(dataset.genes),
            "- Number of samples: " \o ToString(dataset.samples),
            "- Total count entries: " \o FormatThousands(dataset.genes * dataset.samples) >>
    ELSE << "- Number of genes: " \o FormatThousands(dataset.genes),
            "- Samples per group: " \o ToString(dataset.samples),
            "- Total samples: " \o ToString(dataset.samples * 2),
            "- Total count entries: "
                \o FormatThousands(dataset.genes * dataset.samples * 2) >>

\* 9.3 lines 119-134, 9.4 lines 155-170: the directory of the next preset
\* is made and the generator called with the preset's sizes
EnterPreset ==
    /\ cpc = "preset"
    /\ n_genes' = datasets[preset].genes
    /\ n_samples' = datasets[preset].samples
    /\ cpc' = "start"
    /\ UNCHANGED <<generator, samples, count_data, effects, rngVars, runVars, scVars>>
    /\ UNCHANGED <<valVars, seqVars>>

\* what a directory holds once its tables are written
Dataset(dir, lines) ==
    [dir |-> dir, counts |-> count_data, metadata |-> metadata', readme |-> lines]

\* 9.3 generate_batch_metadata(samples), lines 82-107, called at line 136 or
\* at line 182
GenerateBatchMetadata ==
    /\ cpc = "generated"
    /\ generator = "bulk"
    /\ metadata' = BulkMetadata(samples)
    /\ IF mode = "batch"
       THEN cpc' = "readme" /\ UNCHANGED dirs
       ELSE cpc' = "done" /\ dirs' = <<Dataset(".", <<>>)>>
    /\ UNCHANGED <<generator, n_genes, n_samples, samples, count_data, effects, rngVars,
                   mode, preset, scVars>>
    /\ UNCHANGED <<valVars, seqVars>>

\* 9.4 generate_sample_metadata(samples), lines 105-143, called at line 172
\* or at line 340
GenerateSampleMetadata ==
    /\ cpc = "generated"
    /\ generator = "de"
    /\ metadata' = DeMetadata(samples)
    /\ IF mode = "batch"
       THEN cpc' = "readme" /\ UNCHANGED dirs
       ELSE cpc' = "done" /\ dirs' = <<Dataset(".", <<>>)>>
    /\ UNCHANGED <<generator, n_genes, n_samples, samples, count_data, effects, rngVars,
                   mode, preset, scVars>>
    /\ UNCHANGED <<valVars, seqVars>>

\* 9.3 lines 139-166, 9.4 lines 175-275, and the step of the loop over
\* datasets
WriteReadme ==
    /\ cpc = "readme"
    /\ dirs' = Append(dirs, [dir      |-> OutputDir(datasets[preset].name),
                             counts   |-> count_data,
                             metadata |-> metadata,
                             readme   |-> Readme(datasets[preset])])
    /\ IF preset < Len(datasets)
       THEN preset' = preset + 1 /\ cpc' = "preset"
       ELSE cpc' = "done" /\ UNCHANGED preset
    /\ UNCHANGED <<generator, n_genes, n_samples, samples, count_data, effects, rngVars,
                   mode, metadata, scVars>>
    /\ UNCHANGED <<valVars, seqVars>>

\* the streams a seed can stand for
Streams == [1..MaxPeriod -> 0..MaxDraw]

\* 9.3 lines 168-182, 9.4 lines 322-340
DatasetsInit ==
    /\ ValIdle
    /\ SeqIdle
    /\ ScIdle
    /\ generator \in {"bulk", "de"}
    /\ mode \in {"standalone", "batch"}
    /\ rng_stream \in Streams
    /\ rng_pos = 0
    /\ IF mode = "batch"
       THEN cpc = "preset" /\ preset = 1 /\ n_genes = 0 /\ n_samples = 0
       ELSE /\ cpc = "start" /\ preset = 0
            /\ n_genes \in 0..MaxGeneNumber
            /\ n_samples \in 0..MaxMainSamples
    /\ samples = <<>>
    /\ count_data = <<>>
    /\ effects = <<>>
    /\ metadata = <<>>
    /\ dirs = <<>>

DatasetsNext ==
    \/ EnterPreset
    \/ GenerateCountData
    \/ GenerateNormalizedCounts
    \/ GenerateBatchMetadata
    \/ GenerateSampleMetadata
    \/ WriteReadme

SpecDatasets == DatasetsInit /\ [][DatasetsNext]_vars

-----------------------------------------------------------------------------
(* generate_sample_data.py (9.6): generate_simple_synthetic_data            *)

\* line 36: int(n_cells * n_genes * 0.15); the float product truncates to
\* this quotient for every n_cells * n_genes below 2000
TargetEntries(cells, genes) == (cells * genes * 15) \div 100

\* line 45: max(1, int(poisson + 1)), poisson the Poisson draw
DrawnCountNoOffset(poisson) == poisson
DrawnCount(poisson) == IF poisson + 1 > 1 THEN poisson + 1 ELSE 1

PairBefore(a, b) ==
    \/ a.gene_idx < b.gene_idx
    \/ a.gene_idx = b.gene_idx /\ a.cell_idx < b.cell_idx

\* rows in ascending order of (gene_idx, cell_idx), rows of one pair in the
\* order they had
RECURSIVE SortByPair(_)
SortByPair(rows) ==
    IF rows = <<>> THEN <<>>
    ELSE LET sorted == SortByPair(SubSeq(rows, 1, Len(rows) - 1))
             last   == rows[Len(rows)]
             before == SelectSeq(sorted, LAMBDA r : ~PairBefore(last, r))
             after  == SelectSeq(sorted, LAMBDA r : PairBefore(last, r))
         IN  before \o <<last>> \o after

MaxOf(S) == CHOOSE x \in S : \A y \in S : y <= x
MinOf(S) == CHOOSE x \in S : \A y \in S : x <= y

\* line 55: df.groupby(['gene_idx', 'cell_idx'])['count'].max().reset_index():
\* one row per pair, pairs ascending
GroupBy(rows, Agg(_)) ==
    LET SamePair(i, j) == /\ rows[i].gene_idx = rows[j].gene_idx
                          /\ rows[i].cell_idx = rows[j].cell_idx
        first == SelectSeq([i \in DOMAIN rows |-> i],
                           LAMBDA i : \A j \in 1..(i - 1) : ~SamePair(i, j))
    IN  SortByPair([x \in DOMAIN first |->
            Row(rows[first[x]].gene_idx, rows[first[x]].cell_idx,
                Agg({rows[j].count : j \in {k \in DOMAIN rows : SamePair(first[x], k)}}))])
GroupByMin(rows) == GroupBy(rows, MinOf)
GroupByMax(rows) == GroupBy(rows, MaxOf)

n_types == 5

\* lines 67-74: signature_start <= gene_idx < signature_end
InSignature(gene_idx, cell_idx, genes) ==
    LET cell_type           == cell_idx % n_types
        type_signature_size == genes \div n_types
        signature_start     == cell_type * type_signature_size
        signature_end       == IF (cell_type + 1) * type_signature_size < genes
                               THEN (cell_type + 1) * type_signature_size ELSE genes
    IN  signature_start <= gene_idx /\ gene_idx < signature_end

\* line 75: np.random.uniform(2.0, 4.0) lies in [2, 4); the whole factors
BoostFactors == {2, 3}

\* lines 61-81: the tables the loop can build from df
Enhanced(table, genes) ==
    {[i \in DOMAIN table |->
         Row(table[i].gene_idx, table[i].cell_idx, table[i].count * factor[i])] :
     factor \in {f \in [DOMAIN table -> BoostFactors \cup {1}] :
                    \A i \in DOMAIN table :
                        f[i] = 1 <=> ~InSignature(table[i].gene_idx, table[i].cell_idx, genes)}}

\* generate_simple_synthetic_data(n_cells, n_genes), lines 27-86.  Without
\* entries the table of line 54 has no columns and groupby raises KeyError.
GenerateSimpleSyntheticData ==
    /\ cpc = "start"
    /\ generator = "sc"
    /\ \E drawn \in [1..TargetEntries(n_cells, n_genes) ->
                        (0..(n_genes - 1)) \X (0..(n_cells - 1)) \X (0..MaxDraw)] :
          entries' = [i \in DOMAIN drawn |->
                         Row(drawn[i][1], drawn[i][2], DrawnCount(drawn[i][3]))]
    /\ IF entries' = <<>>
       THEN /\ cpc' = "raised"
            /\ UNCHANGED <<df_grouped, df_final>>
       ELSE /\ df_grouped' = GroupByMax(entries')
            /\ df_final' \in {SortByPair(t) : t \in Enhanced(df_grouped', n_genes)}
            /\ cpc' = "returned"
    /\ UNCHANGED <<generator, n_genes, n_samples, samples, count_data, effects, n_cells,
                   rngVars, runVars>>
    /\ UNCHANGED <<valVars, seqVars>>

\* the three count-table generators, one call of one of them
TablesInit ==
    /\ ValIdle
    /\ SeqIdle
    /\ cpc = "start"
    /\ generator \in {"bulk", "de", "sc"}
    /\ n_genes \in 0..MaxMatrix
    /\ n_samples \in IF generator = "sc" THEN {0} ELSE 0..MaxSamples
    /\ n_cells \in IF generator = "sc" THEN 0..MaxMatrix ELSE {0}
    /\ CASE generator = "bulk" -> n_genes <= MaxGenes /\ n_genes * n_samples <= MaxCountRows
         [] generator = "de"   -> n_genes <= MaxGenes /\ n_genes * 2 * n_samples <= MaxCountRows
         [] generator = "sc"   -> n_genes * n_cells <= MaxMatrix
    /\ samples = <<>>
    /\ count_data = <<>>
    /\ effects = <<>>
    /\ RngOpen
    /\ RunIdle
    /\ entries = <<>> /\ df_grouped = <<>> /\ df_final = <<>>

TablesNext ==
    \/ GenerateCountData
    \/ GenerateNormalizedCounts
    \/ GenerateSimpleSyntheticData

SpecTables == TablesInit /\ [][TablesNext]_vars

-----------------------------------------------------------------------------
(* Properties of the count tables, checked under SpecCounts                 *)

Generated == cpc = "generated"

\* C10: the bulk table has n_genes * n_samples rows, the differential-
\* expression table n_genes * 2 * n_samples_per_group; the sample identifiers
\* are pairwise distinct and every (gene_id, sample_id) pair is in exactly one
\* row.
C10_OneRowPerPair ==
    Generated =>
        /\ Len(count_data) = IF generator = "bulk" THEN n_genes * n_samples
                                                   ELSE n_genes * 2 * n_samples
        /\ Len(samples) = IF generator = "bulk" THEN n_samples ELSE 2 * n_samples
        /\ \A i, j \in DOMAIN samples : i # j => samples[i] # samples[j]
        /\ \A g \in 1..n_genes : \A x \in DOMAIN samples :
              Cardinality({r \in DOMAIN count_data :
                              /\ count_data[r].gene_id = GeneId(g)
                              /\ count_data[r].sample_id = samples[x]}) = 1
        /\ \A i, j \in DOMAIN count_data :
              i # j => \/ count_data[i].gene_id # count_data[j].gene_id
                       \/ count_data[i].sample_id # count_data[j].sample_id

\* a bulk table of seven samples, where condition and batch have come round
\* to those of the first sample
C10_Witness ==
    /\ Generated
    /\ generator = "bulk"
    /\ n_genes = 1
    /\ n_samples = 7
    /\ Len(count_data) = 7
    /\ samples[1] = "Control_Batch1_Rep1"
    /\ samples[7] = "Control_Batch1_Rep4"

-----------------------------------------------------------------------------
(* generate_sample_data.py (9.6) main, then validate_input.py on its file   *)

\* 9.6 generate_sample_data.py lines 98-100: df.to_csv(output_file,
\* sep='\t', index=False) writes the columns gene_idx, cell_idx, count and
\* the rows of df; input is data/raw/sparse_counts.tsv
SaveSparseCounts ==
    /\ cpc = "returned"
    /\ generator = "sc"
    /\ input' = [kind |-> "table", header |-> {"gene_idx", "cell_idx", "count"},
                 rows |-> df_final, numeric |-> TRUE]
    /\ cpc' = "saved"
    /\ UNCHANGED <<vpc, argc, fs, fs0, df, df_filtered, err, exitCode, log, stdout>>
    /\ UNCHANGED <<generator, n_genes, n_samples, samples, count_data, effects,
                   rngVars, runVars, scVars>>
    /\ UNCHANGED seqVars

\* validate_input.py lines 59-60: python validate_input.py
\* data/raw/sparse_counts.tsv <output_dir>
StartValidator ==
    /\ cpc = "saved"
    /\ vpc = "idle"
    /\ vpc' = "args"
    /\ argc' = 3
    /\ fs' \in OutputDirStates
    /\ fs0' = fs'
    /\ UNCHANGED <<input, df, df_filtered, err, exitCode, log, stdout>>
    /\ UNCHANGED <<seqVars, cntVars>>

PipelineInit ==
    /\ ValIdle
    /\ SeqIdle
    /\ cpc = "start"
    /\ generator = "sc"
    /\ n_genes \in 0..MaxMatrix
    /\ n_cells \in 0..MaxMatrix
    /\ n_genes * n_cells <= MaxMatrix
    /\ n_samples = 0
    /\ samples = <<>>
    /\ count_data = <<>>
    /\ effects = <<>>
    /\ RngOpen
    /\ RunIdle
    /\ entries = <<>> /\ df_grouped = <<>> /\ df_final = <<>>

PipelineNext ==
    \/ GenerateSimpleSyntheticData
    \/ SaveSparseCounts
    \/ StartValidator
    \/ ValNext

SpecPipeline == PipelineInit /\ [][PipelineNext]_vars

-----------------------------------------------------------------------------
(* Properties of the three count tables, checked under SpecTables           *)

CountsOf(table) == {table[i].count : i \in DOMAIN table}

\* C11: every count is at or above the floor of its generator, whatever the
\* draws: 0.1 (MinCount twentieths) in the differential-expression table,
\* control and treatment rows alike; 1 in the single-cell table, as drawn,
\* after the deduplication and after the signature boost; 0 in the bulk table.
C11_CountsAtOrAboveFloor ==
    /\ generator = "de"   => \A c \in CountsOf(count_data) : c >= MinCount
    /\ generator = "bulk" => \A c \in CountsOf(count_data) : c >= 0
    /\ generator = "sc"   =>
          \A c \in CountsOf(entries) \cup CountsOf(df_grouped) \cup CountsOf(df_final) : c >= 1

\* a differential-expression table with a control and a treatment count
\* raised to the floor next to counts above it
C11_Witness ==
    /\ cpc = "generated"
    /\ generator = "de"
    /\ n_samples = 1
    /\ n_genes = 2
    /\ [i \in DOMAIN count_data |-> count_data[i].count] = <<MinCount, MinCount + 1, MinCount + 1, MinCount>>

SamePair(a, b) == a.gene_idx = b.gene_idx /\ a.cell_idx = b.cell_idx

\* C12: the table generate_simple_synthetic_data returns has at most
\* int(n_cells * n_genes * 0.15) rows, holds each (gene_idx, cell_idx) pair at
\* most once, with 0 <= gene_idx < n_genes and 0 <= cell_idx < n_cells, and is
\* sorted by (gene_idx, cell_idx); it holds exactly the drawn pairs, and the
\* count kept for a pair before the boost is the largest count drawn for it.
C12_DeduplicatedByMaximum ==
    (generator = "sc" /\ cpc = "returned") =>
        /\ 100 * Len(df_final) <= 15 * n_cells * n_genes
        /\ \A i, j \in DOMAIN df_final : i # j => ~SamePair(df_final[i], df_final[j])
        /\ \A i \in DOMAIN df_final :
              /\ 0 <= df_final[i].gene_idx /\ df_final[i].gene_idx < n_genes
              /\ 0 <= df_final[i].cell_idx /\ df_final[i].cell_idx < n_cells
        /\ \A i \in 1..(Len(df_final) - 1) : PairBefore(df_final[i], df_final[i + 1])
        /\ \A e \in DOMAIN entries : \E i \in DOMAIN df_final : SamePair(df_final[i], entries[e])
        /\ Len(df_grouped) = Len(df_final)
        /\ \A i \in DOMAIN df_final :
              LET drawn == {entries[e].count : e \in {x \in DOMAIN entries :
                                                        SamePair(entries[x], df_final[i])}}
              IN  /\ SamePair(df_grouped[i], df_final[i])
                  /\ df_grouped[i].count \in drawn
                  /\ \A c \in drawn : c <= df_grouped[i].count
                  /\ \/ df_final[i].count = df_grouped[i].count
                     \/ /\ 2 * df_grouped[i].count <= df_final[i].count
                        /\ df_final[i].count < 4 * df_grouped[i].count

\* one pair drawn twice, the larger count first, and kept once with it
C12_Witness ==
    /\ generator = "sc"
    /\ cpc = "returned"
    /\ Len(entries) = 2
    /\ SamePair(entries[1], entries[2])
    /\ entries[1].count = 2
    /\ entries[2].count = 1
    /\ Len(df_final) = 1
    /\ df_grouped[1].count = 2

-----------------------------------------------------------------------------
(* Properties of the datasets, checked under SpecDatasets                   *)

MetadataWritten == cpc \in {"readme", "done"}

\* C13: the metadata table has one row per sample, in generation order, with
\* the labels the sample identifier was built from.  9.3: the i-th sample
\* (from 0) has condition conditions[i mod 2], batch batches[i mod 3] and
\* replicate "Rep" (i div 2 + 1).  9.4: the r-th sample of a group has group
\* and condition "Control" or "Treatment" as its prefix, never "Unknown",
\* replicate r and batch "Batch" ((r - 1) mod 3 + 1).
C13_MetadataMatchesLabels ==
    MetadataWritten =>
        /\ Len(metadata) = Len(samples)
        /\ \A x \in DOMAIN metadata : metadata[x].sample_id = samples[x]
        /\ generator = "bulk" =>
              /\ Len(metadata) = n_samples
              /\ \A i \in 0..(n_samples - 1) :
                    /\ metadata[i + 1].condition = conditions[(i % 2) + 1]
                    /\ metadata[i + 1].batch = batches[(i % 3) + 1]
                    /\ metadata[i + 1].replicate = "Rep" \o ToString((i \div 2) + 1)
        /\ generator = "de" =>
              /\ Len(metadata) = 2 * n_samples
              /\ \A x \in DOMAIN metadata :
                    LET label == IF x <= n_samples THEN "Control" ELSE "Treatment"
                        r     == IF x <= n_samples THEN x ELSE x - n_samples
                    IN  /\ metadata[x].group = label
                        /\ metadata[x].condition = label
                        /\ metadata[x].replicate = ToString(r)
                        /\ metadata[x].batch = "Batch" \o ToString(((r - 1) % 3) + 1)
                        /\ metadata[x].sample_id = label \o "_Rep" \o ToString(r)

\* the fourth treatment replicate of the large preset is back in Batch1
C13_Witness ==
    /\ MetadataWritten
    /\ generator = "de"
    /\ n_samples = 4
    /\ Len(metadata) = 8
    /\ metadata[8] = [sample_id |-> "Treatment_Rep4", group |-> "Treatment",
                      condition |-> "Treatment", replicate |-> "4", batch |-> "Batch1"]

\* what a run of main for one dataset of these sizes writes: the generator
\* is seeded and takes its draws from the start of the stream
StandaloneCounts(dataset) ==
    LET rows == IF generator = "bulk" THEN dataset.genes * dataset.samples
                                      ELSE dataset.genes * 2 * dataset.samples
        draw == [r \in 1..rows |-> StreamAt(r)]
    IN  IF generator = "bulk"
        THEN BulkRows(Genes(dataset.genes), BulkSamples(dataset.samples), draw)
        ELSE DeRows(Genes(dataset.genes), DeSamples(dataset.samples),
                    [r \in 1..rows |-> DeValue(draw[r])])
StandaloneMetadata(dataset) ==
    IF generator = "bulk" THEN BulkMetadata(BulkSamples(dataset.samples))
                          ELSE DeMetadata(DeSamples(dataset.samples))

\* C14: under --create-test-sets every preset leaves its count table, its
\* metadata table and its README in a directory of its own; the two tables
\* are those of a run of main for one dataset of the preset's sizes, whatever
\* presets were created before; and the README's "Total count entries" is the
\* number of rows of the count table.
C14_PresetsAreStandaloneRuns ==
    mode = "batch" =>
        /\ cpc = "done" => Len(dirs) = 3
        /\ \A p, q \in DOMAIN dirs : p # q => dirs[p].dir # dirs[q].dir
        /\ \A p \in DOMAIN dirs :
              /\ dirs[p].dir = (IF generator = "bulk" THEN "test_data_" ELSE "the_test_data_")
                                   \o <<"small", "medium", "large">>[p]
              /\ dirs[p].counts # <<>>
              /\ dirs[p].counts = StandaloneCounts(datasets[p])
              /\ dirs[p].metadata = StandaloneMetadata(datasets[p])
              /\ dirs[p].readme[Len(dirs[p].readme)] =
                     "- Total count entries: " \o FormatThousands(Len(dirs[p].counts))

\* the three bulk presets created from one stream of unequal draws
C14_Witness ==
    /\ mode = "batch"
    /\ generator = "bulk"
    /\ cpc = "done"
    /\ rng_stream = <<0, 1, 1>>
    /\ Len(dirs) = 3
    /\ [r \in 1..2 |-> dirs[1].counts[r].count] = <<0, 1>>
    /\ [r \in 1..6 |-> dirs[2].counts[r].count] = <<0, 1, 1, 0, 1, 1>>
    /\ dirs[3].readme[3] = "- Total count entries: 12"

-----------------------------------------------------------------------------
(* Properties of introduce_errors, checked under SpecErrors                 *)

ErrorsDone == spc = "introduce_errors_done"

\* C16: introduce_errors returns a sequence as long as its argument; every
\* position holds its original base or one of the three other bases of A, T,
\* G, C; a position selected for an error never keeps its base and no other
\* position changes; at error rate 0 the sequence comes back unchanged, and
\* the reads generate_weighted_reads returns at an error rate of 0 or less are
\* contiguous pieces of read_length bases of a transcript.
C16_ErrorsSubstituteOtherBases ==
    /\ ErrorsDone =>
          /\ Len(seq_list) = Len(in_sequence)
          /\ \A i \in DOMAIN seq_list :
                /\ \/ seq_list[i] = in_sequence[i]
                   \/ seq_list[i] \in {"A", "T", "G", "C"} \ {in_sequence[i]}
                /\ i \in error_positions <=> seq_list[i] # in_sequence[i]
          /\ error_rate = 0 => seq_list = in_sequence
    /\ (ReadsDone /\ error_rate <= 0) =>
          \A r \in DOMAIN reads :
              /\ Len(reads[r]) = read_length
              /\ \E t \in DOMAIN transcripts : Contains(transcripts[t].value, reads[r])

\* of three bases the first and the last were selected and replaced, the
\* middle one was not
C16_Witness ==
    /\ ErrorsDone
    /\ error_rate = 50
    /\ in_sequence = <<"A", "T", "G">>
    /\ error_positions = {1, 3}
    /\ seq_list = <<"C", "T", "A">>

-----------------------------------------------------------------------------
(* Properties of the generated file under the validator, checked under      *)
(* SpecPipeline                                                             *)

\* C17: the table the single-cell generator writes carries the header
\* gene_idx, cell_idx, count; when the output directory exists the validator
\* exits 0 on it, filters out no row, and validated_matrix.tsv holds the rows
\* of the generated table.
C17_ValidatorAcceptsGeneratedTable ==
    /\ cpc = "saved" =>
          /\ input.kind = "table"
          /\ input.header = {"gene_idx", "cell_idx", "count"}
          /\ input.rows = df_final
          /\ df_final # <<>>
    /\ (cpc = "saved" /\ Exited /\ fs0.dir) =>
          /\ exitCode = 0
          /\ df_filtered.rows = df_final
          /\ fs.matrix.exists
          /\ fs.matrix.header = <<"gene_idx", "cell_idx", "count">>
          /\ fs.matrix.rows = df_final
          /\ fs.report.lines[3] = "Original entries: " \o ToString(Len(df_final))
          /\ fs.report.lines[4] = "Non-zero entries: " \o ToString(Len(df_final))

\* a table of two rows, one of them with the smallest count 1, went through
\* the validator into a directory that held the files of an earlier run
C17_Witness ==
    /\ cpc = "saved"
    /\ Exited
    /\ exitCode = 0
    /\ fs0.matrix.exists
    /\ Len(df_final) = 2
    /\ df_final[1].count = 1
    /\ df_final[2].count > 1
    /\ fs.matrix.rows = df_final
    /\ fs.matrix.rows # fs0.matrix.rows

=============================================================================
